---- MODULE Spec2Model ----
(***************************************************************************)
(* A model of the maplejuris-api orchestration core: ChatGraph (routing,   *)
(* retrieval, answer generation, error handling), the ChatAgent and        *)
(* RetrievalAgent collaborators it calls, and the /api/chat boundary.      *)
(*                                                                         *)
(* Strings are sequences of one-character strings.  An Optional[str] is a  *)
(* sequence of length 0 (None) or 1 (the string), so that None and the     *)
(* empty string "" stay different values.                                  *)
(***************************************************************************)
EXTENDS Integers, Sequences, FiniteSets, TLC

(***************************************************************************)
(* Bounds of the model.                                                    *)
(***************************************************************************)
\* longest question the callers submit
MaxQuestionLen == 2
\* number of rows of the largest sections table
MaxRows == 9

(***************************************************************************)
(* Strings.                                                                *)
(***************************************************************************)
\* the characters questions are made of: lower case, upper case, white space
Alphabet == {"a", "c", "t", "A", " ", "\n"}

RECURSIVE StringsUpTo(_)
StringsUpTo(n) ==
    IF n = 0 THEN {<<>>}
    ELSE LET shorter == StringsUpTo(n - 1)
         IN  shorter \cup {Append(s, c) : s \in {x \in shorter : Len(x) = n - 1}, c \in Alphabet}

\* questions in full: the examples of the documentation, each keyword of the
\* routing list in some spelling, and near misses
SampleQuestions ==
    {<<"W", "h", "a", "t", " ", "i", "s", " ", "t", "h", "e", " ", "p", "e", "n", "a", "l", "t", "y", " ", "f", "o", "r", " ", "t", "h", "e", "f", "t", "?">>,
     <<"W", "h", "a", "t", " ", "a", "r", "e", " ", "t", "h", "e", " ", "p", "e", "n", "a", "l", "t", "i", "e", "s", " ", "f", "o", "r", " ", "t", "h", "e", "f", "t", "?">>,
     <<"W", "h", "a", "t", " ", "i", "s", " ", "t", "h", "e", " ", "c", "a", "p", "i", "t", "a", "l", " ", "o", "f", " ", "J", "o", "r", "d", "a", "n", "?">>,
     <<"W", "h", "a", "t", " ", "i", "s", " ", "2", "+", "2", "?">>,
     <<"a", "c", "t">>,
     <<"A", "c", "t", " ">>,
     <<" ", "a", "C", "T">>,
     <<"L", "A", "W">>,
     <<"L", "e", "g", "a", "l">>,
     <<"f", "a", "c", "t", "o", "r", "y">>,
     <<"S", "t", "a", "t", "u", "t", "e">>,
     <<"S", "E", "C", "T", "I", "O", "N", " ", "2">>,
     <<"O", "f", "f", "e", "n", "c", "e">>,
     <<"c", "r", "i", "m", "e">>,
     <<"C", "r", "i", "m", "i", "n", "a", "l">>,
     <<"r", "e", "g", "u", "l", "a", "t", "i", "o", "n">>,
     <<"C", "a", "n", "a", "d", "a">>,
     <<"c", "a", "n", "a", "d", "i", "a", "n">>,
     <<"L", "E", "G", "I", "S", "L", "A", "T", "I", "O", "N">>,
     <<"l", " ", "a", "w">>,
     <<"p", "e", "n", "a", "l", "t">>}

\* the questions the callers submit
Questions == StringsUpTo(MaxQuestionLen) \cup SampleQuestions

None == <<>>
Some(s) == <<s>>
\* Python truthiness of an Optional[str]: None and "" are falsy
Truthy(opt) == opt # None /\ opt[1] # <<>>

UpperToLower ==
    ("A" :> "a") @@ ("B" :> "b") @@ ("C" :> "c") @@ ("D" :> "d") @@ ("E" :> "e") @@
    ("F" :> "f") @@ ("G" :> "g") @@ ("H" :> "h") @@ ("I" :> "i") @@ ("J" :> "j") @@
    ("K" :> "k") @@ ("L" :> "l") @@ ("M" :> "m") @@ ("N" :> "n") @@ ("O" :> "o") @@
    ("P" :> "p") @@ ("Q" :> "q") @@ ("R" :> "r") @@ ("S" :> "s") @@ ("T" :> "t") @@
    ("U" :> "u") @@ ("V" :> "v") @@ ("W" :> "w") @@ ("X" :> "x") @@ ("Y" :> "y") @@
    ("Z" :> "z")

\* str.lower(), character by character
LowerChar(c) == IF c \in DOMAIN UpperToLower THEN UpperToLower[c] ELSE c
Lower(s) == [i \in 1..Len(s) |-> LowerChar(s[i])]

WhiteSpace == {" ", "\t", "\n", "\r"}
\* mutant: the check is `not s` alone, without the strip()
Blank_NoStrip(s) == s = <<>>

\* `not s or not s.strip()`: empty, or nothing but white space
Blank(s) == \A i \in 1..Len(s) : s[i] \in WhiteSpace

\* Python `k in s` for strings: k occurs in s as a contiguous run
Contains(s, k) == \E i \in 0..(Len(s) - Len(k)) : SubSeq(s, i + 1, i + Len(k)) = k

\* s[:n]
Prefix(s, n) == SubSeq(s, 1, IF Len(s) < n THEN Len(s) ELSE n)

Digits == <<"0", "1", "2", "3", "4", "5", "6", "7", "8", "9">>
\* str(n) of a non-negative integer
RECURSIVE Str(_)
Str(n) == IF n < 10 THEN <<Digits[n + 1]>> ELSE Str(n \div 10) \o <<Digits[(n % 10) + 1]>>

Rep(c, n) == [i \in 1..n |-> c]

(***************************************************************************)
(* ChatGraphState and the routing decision.                                *)
(***************************************************************************)
ChatGraphState(q, nr, rs, a, e) ==
    [question |-> q, needs_retrieval |-> nr, retrieved_sections |-> rs,
     answer |-> a, error |-> e]

\* the keyword list of route_question_node, in the order of the code
legal_keywords ==
    << <<"l", "a", "w">>,
       <<"l", "e", "g", "a", "l">>,
       <<"a", "c", "t">>,
       <<"s", "t", "a", "t", "u", "t", "e">>,
       <<"s", "e", "c", "t", "i", "o", "n">>,
       <<"p", "e", "n", "a", "l", "t", "y">>,
       <<"o", "f", "f", "e", "n", "c", "e">>,
       <<"c", "r", "i", "m", "e">>,
       <<"c", "r", "i", "m", "i", "n", "a", "l">>,
       <<"r", "e", "g", "u", "l", "a", "t", "i", "o", "n">>,
       <<"c", "a", "n", "a", "d", "a">>,
       <<"c", "a", "n", "a", "d", "i", "a", "n">>,
       <<"l", "e", "g", "i", "s", "l", "a", "t", "i", "o", "n">> >>

\* mutant: the question is matched as typed, without lower()
QuestionLower_AsTyped(q) == q

\* question_lower = state.question.lower()
QuestionLower(q) == Lower(q)

\* any(keyword in question_lower for keyword in legal_keywords)
NeedsRetrieval(q) ==
    \E j \in 1..Len(legal_keywords) : Contains(QuestionLower(q), legal_keywords[j])

\* the state route_question_node returns
RouteQuestionState(st) ==
    ChatGraphState(st.question, NeedsRetrieval(st.question), <<>>, None, None)

\* mutant: the router sends every question to retrieval
RouteQuestionRouter_AlwaysRetrieve(st) == "retrieve_sections"

\* _route_question_router, mapped through the edges of _build_graph
RouteQuestionRouter(st) ==
    IF st.needs_retrieval THEN "retrieve_sections" ELSE "process_chat_agent_node"

(***************************************************************************)
(* The sections table and the similarity query of RetrievalAgent.process.  *)
(* An embedding is a unit vector in the plane at a multiple of 60 degrees  *)
(* (0..5); cosines are kept doubled so that they are integers: 2 cos(0) =  *)
(* 2, 2 cos(60) = 1, 2 cos(120) = -1, 2 cos(180) = -2.                      *)
(***************************************************************************)
Cos2(a, b) ==
    LET d == (a - b + 6) % 6
    IN  CASE d = 0 -> 2
          [] d \in {1, 5} -> 1
          [] d \in {2, 4} -> -1
          [] OTHER -> -2

\* s.embedding <=> query, doubled: 2 * (1 - cosine similarity)
CosineDistance2(a, b) == 2 - Cos2(a, b)

\* the vectors the embedding model returns for a query
QueryVecs == {0, 1}

PoolAngles == <<0, 1, 5, 0, 0, 0, 2, 4, 3>>
PoolText(i) ==
    CASE i = 1 -> Some(Rep("x", 301))
      [] i = 2 -> Some(Rep("y", 300))
      [] i = 4 -> None
      [] i = 5 -> Some(<<>>)
      [] OTHER -> Some(<<"s">> \o Str(i))

\* row i of the sections table, joined with its body and statute
PoolRow(i) ==
    [id |-> i,
     label |-> <<"L">> \o Str(i),
     text |-> PoolText(i),
     position |-> i,
     embedding |-> IF i = 6 THEN None
                   ELSE Some(IF i <= Len(PoolAngles) THEN PoolAngles[i] ELSE i % 6),
     statute_title |-> <<"T">> \o Str(i % 2),
     statute_long_title |-> <<"L", "T">> \o Str(i % 2)]

TableSizes == {0, 3, MaxRows}
Tables == {[i \in 1..n |-> PoolRow(i)] : n \in TableSizes}

\* mutant: the WHERE clause lacks AND s.text != ''
Eligible_EmptyTextAllowed(row) == row.embedding # None /\ row.text # None

\* WHERE s.embedding IS NOT NULL AND s.text IS NOT NULL AND s.text != ''
Eligible(row) == row.embedding # None /\ row.text # None /\ row.text[1] # <<>>

RowDistance2(row, qv) == CosineDistance2(row.embedding[1], qv)

\* mutant: the query has no ORDER BY, the rows come in any order
RECURSIVE OrderByLimit_Unordered(_, _, _, _)
OrderByLimit_Unordered(table, rest, qv, k) ==
    IF k <= 0 \/ rest = {} THEN {<<>>}
    ELSE UNION {{<<i>> \o t : t \in OrderByLimit_Unordered(table, rest \ {i}, qv, k - 1)}
                : i \in rest}

\* ORDER BY s.embedding <=> query LIMIT :k over the row numbers `rest`:
\* every order the database may return (rows at equal distance in any order)
RECURSIVE OrderByLimit(_, _, _, _)
OrderByLimit(table, rest, qv, k) ==
    IF k <= 0 \/ rest = {} THEN {<<>>}
    ELSE LET nearest == {i \in rest : \A j \in rest :
                            RowDistance2(table[i], qv) <= RowDistance2(table[j], qv)}
         IN  UNION {{<<i>> \o t : t \in OrderByLimit(table, rest \ {i}, qv, k - 1)}
                    : i \in nearest}

\* mutant: the query has no LIMIT
SimilarityQuery_NoLimit(table, qv, k) ==
    LET eligible == {i \in 1..Len(table) : Eligible(table[i])}
    IN  {[n \in 1..Len(order) |-> table[order[n]]]
            : order \in OrderByLimit(table, eligible, qv, Len(table))}

\* the row sequences similarity_query may fetch
SimilarityQuery(table, qv, k) ==
    LET eligible == {i \in 1..Len(table) : Eligible(table[i])}
    IN  {[n \in 1..Len(order) |-> table[order[n]]] : order \in OrderByLimit(table, eligible, qv, k)}

\* one formatted result of RetrievalAgent.process; similarity is doubled
FormatRow(row, qv) ==
    [id |-> Str(row.id),
     text |-> row.text[1],
     label |-> row.label,
     position |-> row.position,
     statute_title |-> row.statute_title,
     statute_long_title |-> row.statute_long_title,
     similarity |-> 2 - RowDistance2(row, qv)]

FormatResults(rows, qv) == [n \in 1..Len(rows) |-> FormatRow(rows[n], qv)]

(***************************************************************************)
(* Exceptions and the outcomes of the external services.                   *)
(***************************************************************************)
QuestionEmptyMsg ==
    <<"Q", "u", "e", "s", "t", "i", "o", "n", " ", "c", "a", "n", "n", "o", "t", " ",
      "b", "e", " ", "e", "m", "p", "t", "y">>
QueryEmptyMsg ==
    <<"Q", "u", "e", "r", "y", " ", "c", "a", "n", "n", "o", "t", " ", "b", "e", " ",
      "e", "m", "p", "t", "y">>
ErrorExecutingGraph ==
    <<"E", "r", "r", "o", "r", " ", "e", "x", "e", "c", "u", "t", "i", "n", "g", " ",
      "t", "h", "e", " ", "g", "r", "a", "p", "h">>

\* str(e) of the exceptions the external services raise
ExcTexts == {<<"b", "o", "o", "m">>, <<"d", "o", "w", "n">>}
\* the answers the model chain parses out of a reply
Answers == {<<>>, <<"o", "k">>}

\* chain.invoke: a parsed ChatAgentResponse, or an exception
ChainOutcomes ==
    {[kind |-> "return", answer |-> a] : a \in Answers}
        \cup {[kind |-> "raise", text |-> e] : e \in ExcTexts}

\* where a RetrievalAgent.process call fails, if it does
RetrievalFaults == {"none", "embed", "connect", "execute"}

(***************************************************************************)
(* ChatAgent.process and RetrievalAgent.process.                           *)
(***************************************************************************)
\* one call of chain.invoke: its input, the answer it returned (None: it
\* raised) and the text of the exception it raised (None: it returned)
ChainCall(q, chain) ==
    [input |-> q,
     returned |-> IF chain.kind = "return" THEN Some(chain.answer) ELSE None,
     raised |-> IF chain.kind = "raise" THEN Some(chain.text) ELSE None]

\* mutant: a failed chain.invoke is tried a second time before giving up
ChatAgentProcess_Retry(q, chain) ==
    IF Blank(q)
    THEN [kind |-> "raise", exc_type |-> "ValueError", text |-> QuestionEmptyMsg,
          answer |-> <<>>, chain_calls |-> <<>>]
    ELSE IF chain.kind = "raise"
    THEN [kind |-> "raise", exc_type |-> "Exception", text |-> chain.text,
          answer |-> <<>>, chain_calls |-> <<ChainCall(q, chain), ChainCall(q, chain)>>]
    ELSE [kind |-> "return", exc_type |-> "", text |-> <<>>,
          answer |-> chain.answer, chain_calls |-> <<ChainCall(q, chain)>>]

\* mutant: process has no check of the question and always invokes the chain
ChatAgentProcess_NoBlankCheck(q, chain) ==
    IF chain.kind = "raise"
    THEN [kind |-> "raise", exc_type |-> "Exception", text |-> chain.text,
          answer |-> <<>>, chain_calls |-> <<ChainCall(q, chain)>>]
    ELSE [kind |-> "return", exc_type |-> "", text |-> <<>>,
          answer |-> chain.answer, chain_calls |-> <<ChainCall(q, chain)>>]

\* ChatAgent.process(question): the result, and the calls of chain.invoke
ChatAgentProcess(q, chain) ==
    IF Blank(q)
    THEN [kind |-> "raise", exc_type |-> "ValueError", text |-> QuestionEmptyMsg,
          answer |-> <<>>, chain_calls |-> <<>>]
    ELSE IF chain.kind = "raise"
    THEN [kind |-> "raise", exc_type |-> "Exception", text |-> chain.text,
          answer |-> <<>>, chain_calls |-> <<ChainCall(q, chain)>>]
    ELSE [kind |-> "return", exc_type |-> "", text |-> <<>>,
          answer |-> chain.answer, chain_calls |-> <<ChainCall(q, chain)>>]

\* mutant: the connection is taken without `with`, and stays open when
\* conn.execute raises
RetrievalAgentProcess_LeaksOnError(query, k, fault, exc, qv, rows) ==
    IF Blank(query)
    THEN [kind |-> "raise", exc_type |-> "ValueError", text |-> QueryEmptyMsg,
          hits |-> <<>>, embed_calls |-> <<>>, conn |-> <<>>]
    ELSE IF fault = "embed"
    THEN [kind |-> "raise", exc_type |-> "Exception", text |-> exc,
          hits |-> <<>>, embed_calls |-> <<query>>, conn |-> <<>>]
    ELSE IF fault = "connect"
    THEN [kind |-> "raise", exc_type |-> "Exception", text |-> exc,
          hits |-> <<>>, embed_calls |-> <<query>>, conn |-> <<"connect_failed">>]
    ELSE IF fault = "execute"
    THEN [kind |-> "raise", exc_type |-> "Exception", text |-> exc,
          hits |-> <<>>, embed_calls |-> <<query>>, conn |-> <<"acquire">>]
    ELSE [kind |-> "return", exc_type |-> "", text |-> <<>>,
          hits |-> FormatResults(rows, qv), embed_calls |-> <<query>>,
          conn |-> <<"acquire", "release">>]

\* RetrievalAgent.process(query, k): the result, the queries sent to the
\* embedding service, and what happened to the database connection
RetrievalAgentProcess(query, k, fault, exc, qv, rows) ==
    IF Blank(query)
    THEN [kind |-> "raise", exc_type |-> "ValueError", text |-> QueryEmptyMsg,
          hits |-> <<>>, embed_calls |-> <<>>, conn |-> <<>>]
    ELSE IF fault = "embed"
    THEN [kind |-> "raise", exc_type |-> "Exception", text |-> exc,
          hits |-> <<>>, embed_calls |-> <<query>>, conn |-> <<>>]
    ELSE IF fault = "connect"
    THEN [kind |-> "raise", exc_type |-> "Exception", text |-> exc,
          hits |-> <<>>, embed_calls |-> <<query>>, conn |-> <<"connect_failed">>]
    ELSE IF fault = "execute"
    THEN [kind |-> "raise", exc_type |-> "Exception", text |-> exc,
          hits |-> <<>>, embed_calls |-> <<query>>, conn |-> <<"acquire", "release">>]
    ELSE [kind |-> "return", exc_type |-> "", text |-> <<>>,
          hits |-> FormatResults(rows, qv), embed_calls |-> <<query>>,
          conn |-> <<"acquire", "release">>]

(***************************************************************************)
(* The nodes of the graph.                                                 *)
(***************************************************************************)
\* k of the call self.retrieval_agent.process(state.question, k=5)
RetrievalK == 5
\* the excerpt length of section.get('text', '')[:300]
ExcerptLen == 300

HeaderText ==
    <<"\n", "\n", "R", "e", "l", "e", "v", "a", "n", "t", " ", "l", "e", "g", "a", "l",
      " ", "s", "e", "c", "t", "i", "o", "n", "s", ":", "\n">>
SectionSep == <<" ", "-", " ", "S", "e", "c", "t", "i", "o", "n", " ">>

\* mutant: the text is rendered whole, without the [:300]
SectionLines_WholeText(i, section) ==
    <<"\n">> \o Str(i) \o <<".", " ">> \o section.statute_title \o SectionSep
        \o section.label \o <<"\n">>
        \o <<" ", " ", " ">> \o section.text \o <<".", ".", ".", "\n">>

\* the two lines the loop of process_chat_agent_node appends for hit number i
SectionLines(i, section) ==
    <<"\n">> \o Str(i) \o <<".", " ">> \o section.statute_title \o SectionSep
        \o section.label \o <<"\n">>
        \o <<" ", " ", " ">> \o Prefix(section.text, ExcerptLen) \o <<".", ".", ".", "\n">>

\* context after the loop has run over sections[1..n], numbering from 1
RECURSIVE ContextAfter(_, _)
ContextAfter(sections, n) ==
    IF n = 0 THEN HeaderText
    ELSE ContextAfter(sections, n - 1) \o SectionLines(n, sections[n])

\* mutant: the header of the context is added also when there are no hits
EnhancedQuestion_AlwaysHeader(st) ==
    st.question \o <<"\n", "\n">>
        \o ContextAfter(st.retrieved_sections, Len(st.retrieved_sections))

\* enhanced_question
EnhancedQuestion(st) ==
    IF st.retrieved_sections # <<>>
    THEN st.question \o <<"\n", "\n">>
            \o ContextAfter(st.retrieved_sections, Len(st.retrieved_sections))
    ELSE st.question

\* RetrievalAgent(connection_string=...): built, or an exception
CtorOutcomes == {[kind |-> "return", text |-> <<>>]} \cup {[kind |-> "raise", text |-> e] : e \in ExcTexts}

\* mutant: the except branch logs the exception and leaves error unset
RetrieveSectionsNode_DropsError(st, agent, ctor, res) ==
    IF agent = "None" /\ ctor.kind = "raise"
    THEN [kind |-> "state",
          state |-> ChatGraphState(st.question, TRUE, <<>>, None, None),
          agent |-> agent, ctor_calls |-> 1, called |-> FALSE, exc |-> Some(ctor.text)]
    ELSE LET agent2 == IF agent = "None" THEN "created" ELSE agent
             ctors == IF agent = "None" THEN 1 ELSE 0
         IN  IF res.kind = "raise"
             THEN [kind |-> "state",
                   state |-> ChatGraphState(st.question, TRUE, <<>>, None, None),
                   agent |-> agent2, ctor_calls |-> ctors, called |-> TRUE,
                   exc |-> Some(res.text)]
             ELSE [kind |-> "state",
                   state |-> ChatGraphState(st.question, TRUE, res.hits, None, None),
                   agent |-> agent2, ctor_calls |-> ctors, called |-> TRUE, exc |-> None]

\* mutant: a run that has just constructed the agent returns without searching
RetrieveSectionsNode_NewAgentUnused(st, agent, ctor, res) ==
    IF agent = "None"
    THEN [kind |-> "state",
          state |-> ChatGraphState(st.question, TRUE, <<>>, None,
                                   IF ctor.kind = "raise" THEN Some(ctor.text) ELSE None),
          agent |-> IF ctor.kind = "raise" THEN agent ELSE "created",
          ctor_calls |-> 1, called |-> FALSE,
          exc |-> IF ctor.kind = "raise" THEN Some(ctor.text) ELSE None]
    ELSE IF res.kind = "raise"
    THEN [kind |-> "state",
          state |-> ChatGraphState(st.question, TRUE, <<>>, None, Some(res.text)),
          agent |-> agent, ctor_calls |-> 0, called |-> TRUE, exc |-> Some(res.text)]
    ELSE [kind |-> "state",
          state |-> ChatGraphState(st.question, TRUE, res.hits, None, None),
          agent |-> agent, ctor_calls |-> 0, called |-> TRUE, exc |-> None]

\* retrieve_sections_node: `ctor` is consulted only when no agent is set, `res`
\* (the result of the agent's process) only when there is an agent to call
RetrieveSectionsNode(st, agent, ctor, res) ==
    IF agent = "None" /\ ctor.kind = "raise"
    THEN [kind |-> "state",
          state |-> ChatGraphState(st.question, TRUE, <<>>, None, Some(ctor.text)),
          agent |-> agent, ctor_calls |-> 1, called |-> FALSE, exc |-> Some(ctor.text)]
    ELSE LET agent2 == IF agent = "None" THEN "created" ELSE agent
             ctors == IF agent = "None" THEN 1 ELSE 0
         IN  IF res.kind = "raise"
             THEN [kind |-> "state",
                   state |-> ChatGraphState(st.question, TRUE, <<>>, None, Some(res.text)),
                   agent |-> agent2, ctor_calls |-> ctors, called |-> TRUE,
                   exc |-> Some(res.text)]
             ELSE [kind |-> "state",
                   state |-> ChatGraphState(st.question, TRUE, res.hits, None, None),
                   agent |-> agent2, ctor_calls |-> ctors, called |-> TRUE, exc |-> None]

\* mutant: the edge out of retrieve_sections leads back to route_question
RetrieveSectionsEdge_BackToRoute == "route_question"

\* workflow.add_edge("retrieve_sections", "process_chat_agent_node")
RetrieveSectionsEdge == "process_chat_agent_node"

\* mutant: the success branch carries the incoming error along
ProcessChatAgentNode_KeepsError(st, res) ==
    IF res.kind = "raise"
    THEN [kind |-> "state",
          state |-> ChatGraphState(st.question, st.needs_retrieval, st.retrieved_sections,
                                   None, Some(res.text)),
          exc |-> Some(res.text)]
    ELSE [kind |-> "state",
          state |-> ChatGraphState(st.question, st.needs_retrieval, st.retrieved_sections,
                                   Some(res.answer), st.error),
          exc |-> None]

\* mutant: the except branch logs the exception and raises it again
ProcessChatAgentNode_Reraises(st, res) ==
    IF res.kind = "raise"
    THEN [kind |-> "raise", state |-> st, exc |-> Some(res.text)]
    ELSE [kind |-> "state",
          state |-> ChatGraphState(st.question, st.needs_retrieval, st.retrieved_sections,
                                   Some(res.answer), None),
          exc |-> None]

\* process_chat_agent_node: `res` is the result of chat_agent.process(enhanced_question)
ProcessChatAgentNode(st, res) ==
    IF res.kind = "raise"
    THEN [kind |-> "state",
          state |-> ChatGraphState(st.question, st.needs_retrieval, st.retrieved_sections,
                                   None, Some(res.text)),
          exc |-> Some(res.text)]
    ELSE [kind |-> "state",
          state |-> ChatGraphState(st.question, st.needs_retrieval, st.retrieved_sections,
                                   Some(res.answer), None),
          exc |-> None]

\* mutant: the router tests `state.answer is not None`
ProcessChatAgentNodeRouter_NotNone(st) == IF st.answer # None THEN "END" ELSE "_handle_error"

\* mutant: the router tests whether the state has an error
ProcessChatAgentNodeRouter_ByError(st) == IF st.error = None THEN "END" ELSE "_handle_error"

\* mutant: a failed generation goes back to retrieval instead of _handle_error
ProcessChatAgentNodeRouter_RetryRetrieval(st) ==
    IF Truthy(st.answer) THEN "END" ELSE "retrieve_sections"

\* _process_chat_agent_node_router, mapped through the edges of _build_graph
ProcessChatAgentNodeRouter(st) == IF Truthy(st.answer) THEN "END" ELSE "_handle_error"

\* mutant: the error of the incoming state is passed on
HandleError_KeepsError(st) == ChatGraphState(st.question, FALSE, <<>>, None, st.error)

\* mutant: needs_retrieval and retrieved_sections of the incoming state are
\* passed on
HandleError_KeepsRetrieval(st) ==
    ChatGraphState(st.question, st.needs_retrieval, st.retrieved_sections, None,
                   Some(ErrorExecutingGraph))

\* _handle_error: needs_retrieval and retrieved_sections take the schema's defaults
HandleError(st) ==
    ChatGraphState(st.question, FALSE, <<>>, None, Some(ErrorExecutingGraph))

\* initial_state of run
InitialState(q) == ChatGraphState(q, FALSE, <<>>, None, None)

(***************************************************************************)
(* The /api/chat boundary.                                                 *)
(***************************************************************************)
FailedToProcess ==
    <<"F", "a", "i", "l", "e", "d", " ", "t", "o", " ", "p", "r", "o", "c", "e", "s", "s",
      " ", "q", "u", "e", "s", "t", "i", "o", "n", ".", " ", "P", "l", "e", "a", "s", "e",
      " ", "t", "r", "y", " ", "a", "g", "a", "i", "n", ".">>

\* ChatService.process_question: the ChatResponse built from the final state
ChatResponse(result) ==
    [status |-> 200, question |-> result.question, answer |-> result.answer,
     error |-> result.error, detail |-> None]

\* RouteManager.chat when process_question raises
Http500 ==
    [status |-> 500, question |-> <<>>, answer |-> None, error |-> None,
     detail |-> Some(FailedToProcess)]

(***************************************************************************)
(* State.                                                                  *)
(***************************************************************************)
VARIABLES
    sections,         \* the rows of the sections table (read only)
    retrieval_agent,  \* self.retrieval_agent: "None", "injected" or "created"
    pc,               \* "idle", the node the graph executes next, "END", or "done"
    caller,           \* who called run: "api" (RouteManager.chat) or "direct"
    question,         \* the argument of the current call of run
    state,            \* the ChatGraphState the graph carries
    visited,          \* the nodes executed by the current run, in order
    ctor_calls,       \* RetrievalAgent constructions attempted by the current run
    retrieval_calls,  \* arguments of retrieval_agent.process, current run
    embed_calls,      \* queries sent to the embedding service
    conn_log,         \* what happened to database connections
    chat_calls,       \* arguments of chat_agent.process, current run
    chain_calls,      \* arguments of chain.invoke
    retrieval_exc,    \* str(e) of the exception retrieve_sections_node caught, or None
    chat_exc,         \* str(e) of the exception process_chat_agent_node caught, or None
    outcome,          \* of the last call: "none", "returned" or "raised"
    response,         \* the HTTP response of the last /api/chat request, if any
    call,             \* the last direct call of an agent's process, and its result
    threads,          \* the calls of run made by concurrent threads, each with its
                      \* position in the graph and its own ChatGraphState
    agent_writer      \* the thread whose assignment self.retrieval_agent holds
                      \* (0: the value is the one __init__ assigned)

vars ==
    <<sections, retrieval_agent, pc, caller, question, state, visited, ctor_calls,
      retrieval_calls, embed_calls, conn_log, chat_calls, chain_calls, retrieval_exc,
      chat_exc, outcome, response, call, threads, agent_writer>>

logs ==
    <<visited, ctor_calls, retrieval_calls, embed_calls, conn_log, chat_calls,
      chain_calls, retrieval_exc, chat_exc>>

\* the threads that call run on the one ChatGraph
Threads == {1, 2}

\* a thread that has not called run
NoRun ==
    [pc |-> "idle", question |-> <<>>, state |-> InitialState(<<>>), visited |-> <<>>,
     found |-> "-", ctor |-> <<>>, ctor_calls |-> 0, read_from |-> {}, retrieval |-> <<>>,
     chain |-> <<>>]

NoCall ==
    [agent |-> "none", input |-> <<>>, k |-> 0, kind |-> "none", exc_type |-> "",
     text |-> <<>>, answer |-> None, hits |-> <<>>]

\* ChatGraph.__init__: the agent is injected or left to be created when needed
Init ==
    /\ sections \in Tables
    /\ retrieval_agent \in {"None", "injected"}
    /\ pc = "idle"
    /\ caller = "direct"
    /\ question = <<>>
    /\ state = InitialState(<<>>)
    /\ visited = <<>>
    /\ ctor_calls = 0
    /\ retrieval_calls = <<>>
    /\ embed_calls = <<>>
    /\ conn_log = <<>>
    /\ chat_calls = <<>>
    /\ chain_calls = <<>>
    /\ retrieval_exc = None
    /\ chat_exc = None
    /\ outcome = "none"
    /\ response = <<>>
    /\ call = NoCall
    /\ threads = [t \in Threads |-> NoRun]
    /\ agent_writer = 0

(***************************************************************************)
(* ChatGraph.run and the nodes it executes.                                *)
(***************************************************************************)
\* run(question) up to graph.invoke entering route_question
StartRun(q, who) ==
    /\ pc = "idle"
    /\ caller' = who
    /\ question' = q
    /\ state' = InitialState(q)
    /\ pc' = "route_question"
    /\ UNCHANGED <<sections, threads, agent_writer,
                   retrieval_agent, logs, outcome, response, call>>

\* ChatGraph.run called by a test or the demo loop
run == \E q \in Questions : StartRun(q, "direct")

\* RouteManager.chat: QuestionRequest admits questions of length >= 1
chat == \E q \in Questions : Len(q) >= 1 /\ StartRun(q, "api")

\* an exception leaving a node ends graph.invoke; run re-raises it, as does
\* process_question, and RouteManager.chat answers 500
RunRaises ==
    /\ pc' = "done"
    /\ outcome' = "raised"
    /\ response' = IF caller = "api" THEN <<Http500>> ELSE <<>>
    /\ state' = state

\* what a node's result does to the run: the new state and the next node
NodeDone(r, next) ==
    IF r.kind = "raise" THEN RunRaises
    ELSE /\ state' = r.state
         /\ pc' = next
         /\ UNCHANGED <<outcome, response>>

route_question_node ==
    /\ pc = "route_question"
    /\ LET r == [kind |-> "state", state |-> RouteQuestionState(state)]
       IN  NodeDone(r, RouteQuestionRouter(r.state))
    /\ visited' = Append(visited, "route_question")
    /\ UNCHANGED <<sections, threads, agent_writer,
                   retrieval_agent, caller, question, ctor_calls,
                   retrieval_calls, embed_calls, conn_log, chat_calls, chain_calls,
                   retrieval_exc, chat_exc, call>>

retrieve_sections_node ==
    /\ pc = "retrieve_sections"
    /\ \E ctor \in CtorOutcomes, fault \in RetrievalFaults, exc \in ExcTexts, qv \in QueryVecs :
         \E rows \in SimilarityQuery(sections, qv, RetrievalK) :
            LET res == RetrievalAgentProcess(state.question, RetrievalK, fault, exc, qv, rows)
                r == RetrieveSectionsNode(state, retrieval_agent, ctor, res)
            IN  /\ NodeDone(r, RetrieveSectionsEdge)
                /\ retrieval_agent' = r.agent
                /\ ctor_calls' = ctor_calls + r.ctor_calls
                /\ retrieval_calls' =
                      IF r.called
                      THEN Append(retrieval_calls,
                                  [query |-> state.question, k |-> RetrievalK,
                                   returned |-> IF res.kind = "return" THEN Some(res.hits)
                                                ELSE None])
                      ELSE retrieval_calls
                /\ embed_calls' = IF r.called THEN embed_calls \o res.embed_calls ELSE embed_calls
                /\ conn_log' = IF r.called THEN conn_log \o res.conn ELSE conn_log
                /\ retrieval_exc' = r.exc
    /\ visited' = Append(visited, "retrieve_sections")
    /\ UNCHANGED <<sections, threads, agent_writer,
                   caller, question, chat_calls, chain_calls, chat_exc, call>>

process_chat_agent_node ==
    /\ pc = "process_chat_agent_node"
    /\ \E chain \in ChainOutcomes :
         LET enhanced == EnhancedQuestion(state)
             res == ChatAgentProcess(enhanced, chain)
             r == ProcessChatAgentNode(state, res)
         IN  /\ NodeDone(r, ProcessChatAgentNodeRouter(r.state))
             /\ chat_calls' = Append(chat_calls, enhanced)
             /\ chain_calls' = chain_calls \o res.chain_calls
             /\ chat_exc' = r.exc
    /\ visited' = Append(visited, "process_chat_agent_node")
    /\ UNCHANGED <<sections, threads, agent_writer,
                   retrieval_agent, caller, question, ctor_calls,
                   retrieval_calls, embed_calls, conn_log, retrieval_exc, call>>

_handle_error ==
    /\ pc = "_handle_error"
    /\ NodeDone([kind |-> "state", state |-> HandleError(state)], "END")
    /\ visited' = Append(visited, "_handle_error")
    /\ UNCHANGED <<sections, threads, agent_writer,
                   retrieval_agent, caller, question, ctor_calls,
                   retrieval_calls, embed_calls, conn_log, chat_calls, chain_calls,
                   retrieval_exc, chat_exc, call>>

\* graph.invoke returns at END; run returns the final state, and for a request
\* process_question wraps it in a ChatResponse
run_returns ==
    /\ pc = "END"
    /\ pc' = "done"
    /\ outcome' = "returned"
    /\ response' = IF caller = "api" THEN <<ChatResponse(state)>> ELSE <<>>
    /\ UNCHANGED <<sections, threads, agent_writer,
                   retrieval_agent, caller, question, state, logs, call>>

\* the caller is done with the result: the state record of the request and
\* everything recorded about it are dropped; self.retrieval_agent stays
request_ends ==
    /\ pc = "done"
    /\ pc' = "idle"
    /\ caller' = "direct"
    /\ question' = <<>>
    /\ state' = InitialState(<<>>)
    /\ visited' = <<>>
    /\ ctor_calls' = 0
    /\ retrieval_calls' = <<>>
    /\ embed_calls' = <<>>
    /\ conn_log' = <<>>
    /\ chat_calls' = <<>>
    /\ chain_calls' = <<>>
    /\ retrieval_exc' = None
    /\ chat_exc' = None
    /\ outcome' = "none"
    /\ response' = <<>>
    /\ call' = NoCall
    /\ UNCHANGED <<sections, threads, agent_writer, retrieval_agent>>

Next ==
    \/ run
    \/ chat
    \/ route_question_node
    \/ retrieve_sections_node
    \/ process_chat_agent_node
    \/ _handle_error
    \/ run_returns
    \/ request_ends

Spec == Init /\ [][Next]_vars

\* graph.invoke executes the node that is due, and returns at END; a node is
\* over when the calls it makes have returned or raised
GraphStep ==
    \/ route_question_node
    \/ retrieve_sections_node
    \/ process_chat_agent_node
    \/ _handle_error
    \/ run_returns

\* the questions of the documentation's examples
DocumentedQuestions == {q \in SampleQuestions : Len(q) >= 1 /\ q[Len(q)] = "?"}

\* run and the /api/chat request, called with the documented questions
run_documented == \E q \in DocumentedQuestions : StartRun(q, "direct")

chat_documented == \E q \in DocumentedQuestions : Len(q) >= 1 /\ StartRun(q, "api")

NextFair ==
    \/ run_documented
    \/ chat_documented
    \/ GraphStep
    \/ request_ends

\* the runs in which graph.invoke keeps going until it returns
SpecFair == Init /\ [][NextFair]_vars /\ WF_vars(GraphStep)

(***************************************************************************)
(* The agents called on their own, as the unit tests and the modules'      *)
(* __main__ blocks call them.                                              *)
(***************************************************************************)
\* longest input of a direct call
MaxInputLen == 2
\* largest k of a direct call of RetrievalAgent.process
MaxK == 6

AgentInputs == StringsUpTo(MaxInputLen)

InitAgents == Init /\ retrieval_agent = "None"

\* chat_agent.process(question)
chat_agent_process ==
    /\ pc = "idle"
    /\ \E q \in AgentInputs, chain \in ChainOutcomes :
         LET res == ChatAgentProcess(q, chain)
         IN  /\ call' = [agent |-> "chat", input |-> q, k |-> 0, kind |-> res.kind,
                         exc_type |-> res.exc_type, text |-> res.text,
                         answer |-> IF res.kind = "return" THEN Some(res.answer) ELSE None,
                         hits |-> <<>>]
             /\ chain_calls' = chain_calls \o res.chain_calls
    /\ pc' = "done"
    /\ UNCHANGED <<sections, threads, agent_writer,
                   retrieval_agent, caller, question, state, visited, ctor_calls,
                   retrieval_calls, embed_calls, conn_log, chat_calls, retrieval_exc,
                   chat_exc, outcome, response>>

\* retrieval_agent.process(query, k)
retrieval_agent_process ==
    /\ pc = "idle"
    /\ \E q \in AgentInputs, k \in 1..MaxK, fault \in RetrievalFaults, exc \in ExcTexts,
          qv \in QueryVecs :
         \E rows \in SimilarityQuery(sections, qv, k) :
            LET res == RetrievalAgentProcess(q, k, fault, exc, qv, rows)
            IN  /\ call' = [agent |-> "retrieval", input |-> q, k |-> k, kind |-> res.kind,
                            exc_type |-> res.exc_type, text |-> res.text, answer |-> None,
                            hits |-> res.hits,
                            fault |-> IF res.embed_calls = <<>> THEN "none" ELSE fault]
                /\ embed_calls' = embed_calls \o res.embed_calls
                /\ conn_log' = conn_log \o res.conn
    /\ pc' = "done"
    /\ UNCHANGED <<sections, threads, agent_writer,
                   retrieval_agent, caller, question, state, visited, ctor_calls,
                   retrieval_calls, chat_calls, chain_calls, retrieval_exc, chat_exc,
                   outcome, response>>

NextAgents ==
    \/ chat_agent_process
    \/ retrieval_agent_process
    \/ request_ends

SpecAgents == InitAgents /\ [][NextAgents]_vars

(***************************************************************************)
(* The /api/chat endpoint over a ChatGraph.run that returns or raises.     *)
(***************************************************************************)
\* the final states run may return for question q
FinalStates(q) ==
    {ChatGraphState(q, rs # <<>>, rs, a, e) :
        rs \in {<<>>, FormatResults(<<PoolRow(3)>>, 0)},
        a \in {None} \cup {Some(x) : x \in Answers},
        e \in {None, Some(ErrorExecutingGraph), Some(<<"b", "o", "o", "m">>)}}

\* self.chat_graph.run(question=question): a final state, or an exception
RunOutcomes(q) ==
    {[kind |-> "return", state |-> st, text |-> <<>>] : st \in FinalStates(q)}
        \cup {[kind |-> "raise", state |-> InitialState(q), text |-> e] : e \in ExcTexts}

\* ChatService.process_question: the exception of run is logged and raised again
ProcessQuestion(res) ==
    IF res.kind = "raise"
    THEN [kind |-> "raise", text |-> res.text, response |-> <<>>]
    ELSE [kind |-> "return", text |-> <<>>, response |-> <<ChatResponse(res.state)>>]

\* mutant: the detail of the HTTPException is built from the exception
ChatEndpoint_DetailFromException(pq) ==
    IF pq.kind = "raise"
    THEN [status |-> 500, question |-> <<>>, answer |-> None, error |-> None,
          detail |-> Some(FailedToProcess \o <<" ">> \o pq.text)]
    ELSE pq.response[1]

\* RouteManager.chat: the response to the request
ChatEndpoint(pq) == IF pq.kind = "raise" THEN Http500 ELSE pq.response[1]

\* POST /api/chat with a question that QuestionRequest admits
chat_request ==
    /\ pc = "idle"
    /\ \E q \in Questions :
         /\ Len(q) >= 1
         /\ \E res \in RunOutcomes(q) :
               /\ question' = q
               /\ state' = res.state
               /\ outcome' = IF res.kind = "raise" THEN "raised" ELSE "returned"
               /\ response' = <<ChatEndpoint(ProcessQuestion(res))>>
               /\ call' = [agent |-> "graph", input |-> q, k |-> 0, kind |-> res.kind,
                           exc_type |-> IF res.kind = "raise" THEN "Exception" ELSE "",
                           text |-> res.text, answer |-> res.state.answer, hits |-> <<>>]
    /\ caller' = "api"
    /\ pc' = "done"
    /\ UNCHANGED <<sections, threads, agent_writer, retrieval_agent, logs>>

NextHttp ==
    \/ chat_request
    \/ request_ends

SpecHttp == Init /\ [][NextHttp]_vars

(***************************************************************************)
(* PromptTemplateLoader.load_template and the construction of ChatAgent.   *)
(***************************************************************************)
\* longest template file
MaxFileLen == 3

\* the characters of a template file, decoded
FileAlphabet == {"a", "\r", "\n"}

\* what read_text raises when the file cannot be read: the exception's type
\* and its text
ReadFaults ==
    {[exc_type |-> "FileNotFoundError", text |-> <<"n", "o", " ", "f", "i", "l", "e">>],
     [exc_type |-> "PermissionError", text |-> <<"d", "e", "n", "i", "e", "d">>],
     [exc_type |-> "IsADirectoryError", text |-> <<"i", "s", " ", "d", "i", "r">>],
     [exc_type |-> "UnicodeDecodeError", text |-> <<"b", "a", "d", " ", "b", "y", "t", "e">>]}

\* what may be at prompt_template_directory / file_name
TemplateFiles ==
    {[kind |-> "file", content |-> c, fault |-> <<>>] :
        c \in UNION {[1..n -> FileAlphabet] : n \in 0..MaxFileLen}}
      \cup {[kind |-> "unreadable", content |-> <<>>, fault |-> <<f>>] : f \in ReadFaults}

\* text mode with the default newline=None: "\r\n" and "\r" are read as "\n"
RECURSIVE TranslateNewlines(_)
TranslateNewlines(s) ==
    IF s = <<>> THEN <<>>
    ELSE IF s[1] = "\r"
    THEN <<"\n">> \o TranslateNewlines(IF Len(s) >= 2 /\ s[2] = "\n"
                                        THEN SubSeq(s, 3, Len(s)) ELSE Tail(s))
    ELSE <<s[1]>> \o TranslateNewlines(Tail(s))

\* mutant: every failure is raised as a new generic Exception
LoadTemplate_WrapsErrors(file) ==
    IF file.kind = "unreadable"
    THEN [kind |-> "raise", exc_type |-> "Exception", text |-> file.fault[1].text,
          content |-> <<>>]
    ELSE [kind |-> "return", exc_type |-> "", text |-> <<>>,
          content |-> TranslateNewlines(file.content)]

\* load_template: each except clause logs and raises the exception again
LoadTemplate(file) ==
    IF file.kind = "unreadable"
    THEN [kind |-> "raise", exc_type |-> file.fault[1].exc_type,
          text |-> file.fault[1].text, content |-> <<>>]
    ELSE [kind |-> "return", exc_type |-> "", text |-> <<>>,
          content |-> TranslateNewlines(file.content)]

\* what the construction does after the templates are loaded (messages,
\* prompt, ChatOpenAI, chain): it succeeds or raises
BuildOutcomes ==
    {[kind |-> "return", exc_type |-> "", text |-> <<>>],
     [kind |-> "raise", exc_type |-> "ValueError", text |-> <<"b", "o", "o", "m">>],
     [kind |-> "raise", exc_type |-> "Exception", text |-> <<"d", "o", "w", "n">>]}

\* ChatAgent.__init__: the templates loaded, in order, and whether the agent
\* is built or which exception leaves the constructor
ChatAgentInit(system_file, human_file, build) ==
    LET s == LoadTemplate(system_file)
        h == LoadTemplate(human_file)
    IN  IF s.kind = "raise"
        THEN [kind |-> "raise", exc_type |-> s.exc_type, text |-> s.text,
              loaded |-> <<"system">>, built |-> FALSE, templates |-> <<>>]
        ELSE IF h.kind = "raise"
        THEN [kind |-> "raise", exc_type |-> h.exc_type, text |-> h.text,
              loaded |-> <<"system", "human">>, built |-> FALSE, templates |-> <<>>]
        ELSE IF build.kind = "raise"
        THEN [kind |-> "raise", exc_type |-> build.exc_type, text |-> build.text,
              loaded |-> <<"system", "human">>, built |-> FALSE, templates |-> <<>>]
        ELSE [kind |-> "return", exc_type |-> "", text |-> <<>>,
              loaded |-> <<"system", "human">>, built |-> TRUE,
              templates |-> <<s.content, h.content>>]

InitTemplates == InitAgents /\ sections = <<>>

\* ptl.load_template(file_name)
load_template ==
    /\ pc = "idle"
    /\ \E file \in TemplateFiles :
         LET res == LoadTemplate(file)
         IN  call' = [agent |-> "loader", file |-> file, kind |-> res.kind,
                      exc_type |-> res.exc_type, text |-> res.text,
                      content |-> res.content]
    /\ pc' = "done"
    /\ UNCHANGED <<sections, threads, agent_writer,
                   retrieval_agent, caller, question, state, logs, outcome,
                   response>>

\* ChatAgent()
chat_agent_init ==
    /\ pc = "idle"
    /\ \E system_file \in TemplateFiles, human_file \in TemplateFiles,
          build \in BuildOutcomes :
         LET res == ChatAgentInit(system_file, human_file, build)
         IN  call' = [agent |-> "ChatAgent", system |-> system_file,
                      human |-> human_file, kind |-> res.kind,
                      exc_type |-> res.exc_type, text |-> res.text,
                      loaded |-> res.loaded, built |-> res.built,
                      templates |-> res.templates]
    /\ pc' = "done"
    /\ UNCHANGED <<sections, threads, agent_writer,
                   retrieval_agent, caller, question, state, logs, outcome,
                   response>>

NextTemplates ==
    \/ load_template
    \/ chat_agent_init
    \/ request_ends

SpecTemplates == InitTemplates /\ [][NextTemplates]_vars

(***************************************************************************)
(* Two threads that call run on the same ChatGraph.  A node is executed by *)
(* one thread at a time, but the threads take turns between the statements *)
(* of retrieve_sections_node that read and assign self.retrieval_agent.    *)
(***************************************************************************)
TwoQuestions == {<<"a">>, <<"a", "c", "t">>}
TwoCtorOutcomes == {c \in CtorOutcomes : c.text # <<"d", "o", "w", "n">>}
TwoChainOutcomes == {c \in ChainOutcomes : c.kind = "return" \/ c.text = <<"b", "o", "o", "m">>}

\* the table of the concurrent runs
TwoSections == [i \in 1..3 |-> PoolRow(i)]

\* what the retrieval agent's collaborators do in one call of process: the
\* embedding of the query and the rows fetched, or the exception raised
TwoRetrievalOutcomes ==
    {[fault |-> "none", exc |-> <<>>, qv |-> qv, rows |-> rows] :
        qv \in QueryVecs, rows \in UNION {SimilarityQuery(TwoSections, v, RetrievalK)
                                             : v \in QueryVecs}}
      \cup {[fault |-> "execute", exc |-> <<"b", "o", "o", "m">>, qv |-> 0, rows |-> <<>>]}

\* mutant: the test is left out and every run constructs an agent
LacksAgent_Always(agent) == TRUE

\* mutant: only an injected agent is kept, a constructed one is built anew
LacksAgent_UnlessInjected(agent) == agent # "injected"

\* if not self.retrieval_agent
LacksAgent(agent) == agent = "None"

InitTwo == Init /\ sections = TwoSections

\* thread t moves on: the fields of its record named in `changes` change
Move(t, changes) ==
    threads' = [threads EXCEPT ![t] = changes @@ threads[t]]

\* run(question) called by thread t; what the constructor of RetrievalAgent
\* would do for this thread is fixed here and consulted when it is called
two_run(t) ==
    /\ threads[t].pc = "idle"
    /\ \E q \in TwoQuestions, ctor \in TwoCtorOutcomes :
         Move(t, [pc |-> "route_question", question |-> q, state |-> InitialState(q),
                  ctor |-> <<ctor>>])
    /\ UNCHANGED <<sections, retrieval_agent, agent_writer, pc, caller, question, state,
                   logs, outcome, response, call>>

two_route_question_node(t) ==
    /\ threads[t].pc = "route_question"
    /\ LET st == RouteQuestionState(threads[t].state)
           next == RouteQuestionRouter(st)
       IN  Move(t, [pc |-> IF next = "retrieve_sections" THEN "retrieve_sections:if"
                           ELSE next,
                    state |-> st,
                    visited |-> Append(threads[t].visited, "route_question")])
    /\ UNCHANGED <<sections, retrieval_agent, agent_writer, pc, caller, question, state,
                   logs, outcome, response, call>>

\* retrieve_sections_node, the test `if not self.retrieval_agent`
two_retrieve_sections_if(t) ==
    /\ threads[t].pc = "retrieve_sections:if"
    /\ Move(t, [pc |-> IF LacksAgent(retrieval_agent) THEN "retrieve_sections:new"
                       ELSE "retrieve_sections:process",
                found |-> retrieval_agent,
                read_from |-> threads[t].read_from \cup {agent_writer}])
    /\ UNCHANGED <<sections, retrieval_agent, agent_writer, pc, caller, question, state,
                   logs, outcome, response, call>>

\* retrieve_sections_node, self.retrieval_agent = RetrievalAgent(...): the
\* constructor raises and the except branch ends the node, or the agent is assigned
two_retrieve_sections_new(t) ==
    /\ threads[t].pc = "retrieve_sections:new"
    /\ LET ctor == threads[t].ctor[1]
           r == RetrieveSectionsNode(threads[t].state, "None", ctor,
                                     [kind |-> "raise", text |-> <<>>])
       IN  IF ctor.kind = "raise"
           THEN /\ Move(t, [pc |-> RetrieveSectionsEdge, state |-> r.state,
                            ctor_calls |-> threads[t].ctor_calls + 1,
                            visited |-> Append(threads[t].visited, "retrieve_sections")])
                /\ UNCHANGED <<retrieval_agent, agent_writer>>
           ELSE /\ Move(t, [pc |-> "retrieve_sections:process",
                            ctor_calls |-> threads[t].ctor_calls + 1])
                /\ retrieval_agent' = r.agent
                /\ agent_writer' = t
    /\ UNCHANGED <<sections, pc, caller, question, state, logs, outcome, response, call>>

\* retrieve_sections_node, self.retrieval_agent.process(state.question, k=5)
\* and the rest of the node; the attribute is read again and holds an agent
two_retrieve_sections_process(t) ==
    /\ threads[t].pc = "retrieve_sections:process"
    /\ \E o \in TwoRetrievalOutcomes :
         /\ o.fault = "none" => o.rows \in SimilarityQuery(sections, o.qv, RetrievalK)
         /\ LET res == RetrievalAgentProcess(threads[t].state.question, RetrievalK, o.fault,
                                             o.exc, o.qv, o.rows)
                r == RetrieveSectionsNode(threads[t].state, threads[t].found,
                                          threads[t].ctor[1], res)
            IN  Move(t, [pc |-> RetrieveSectionsEdge, state |-> r.state,
                         retrieval |-> <<o>>,
                         read_from |-> threads[t].read_from \cup {agent_writer},
                         visited |-> Append(threads[t].visited, "retrieve_sections")])
    /\ UNCHANGED <<sections, retrieval_agent, agent_writer, pc, caller, question, state,
                   logs, outcome, response, call>>

two_process_chat_agent_node(t) ==
    /\ threads[t].pc = "process_chat_agent_node"
    /\ \E chain \in TwoChainOutcomes :
         LET res == ChatAgentProcess(EnhancedQuestion(threads[t].state), chain)
             r == ProcessChatAgentNode(threads[t].state, res)
         IN  Move(t, [pc |-> ProcessChatAgentNodeRouter(r.state), state |-> r.state,
                      chain |-> <<chain>>,
                      visited |-> Append(threads[t].visited, "process_chat_agent_node")])
    /\ UNCHANGED <<sections, retrieval_agent, agent_writer, pc, caller, question, state,
                   logs, outcome, response, call>>

two_handle_error(t) ==
    /\ threads[t].pc = "_handle_error"
    /\ Move(t, [pc |-> "END", state |-> HandleError(threads[t].state),
                visited |-> Append(threads[t].visited, "_handle_error")])
    /\ UNCHANGED <<sections, retrieval_agent, agent_writer, pc, caller, question, state,
                   logs, outcome, response, call>>

\* graph.invoke returns and run returns the final state to the thread
two_run_returns(t) ==
    /\ threads[t].pc = "END"
    /\ Move(t, [pc |-> "done"])
    /\ UNCHANGED <<sections, retrieval_agent, agent_writer, pc, caller, question, state,
                   logs, outcome, response, call>>

NextTwo ==
    \E t \in Threads :
        \/ two_run(t)
        \/ two_route_question_node(t)
        \/ two_retrieve_sections_if(t)
        \/ two_retrieve_sections_new(t)
        \/ two_retrieve_sections_process(t)
        \/ two_process_chat_agent_node(t)
        \/ two_handle_error(t)
        \/ two_run_returns(t)

SpecTwo == InitTwo /\ [][NextTwo]_vars

(***************************************************************************)
(* Runs of the same ChatGraph one after the other: a run starts only when  *)
(* no other run is under way.  What each run met and did stays recorded.   *)
(***************************************************************************)
\* run(question) called when every earlier call has returned
seq_run(t) ==
    /\ \A u \in Threads \ {t} : threads[u].pc \in {"idle", "done"}
    /\ two_run(t)

NextSeq ==
    \E t \in Threads :
        \/ seq_run(t)
        \/ two_route_question_node(t)
        \/ two_retrieve_sections_if(t)
        \/ two_retrieve_sections_new(t)
        \/ two_retrieve_sections_process(t)
        \/ two_process_chat_agent_node(t)
        \/ two_handle_error(t)
        \/ two_run_returns(t)

SpecSeq == InitTwo /\ [][NextSeq]_vars

(***************************************************************************)
(* Properties.                                                             *)
(***************************************************************************)
Last(seq) == seq[Len(seq)]

\* a run has returned its terminal state to the caller
Returned == pc = "done" /\ outcome = "returned"

\* the keywords as the documentation lists them
LegalKeywordSet ==
    {<<"l", "a", "w">>, <<"l", "e", "g", "a", "l">>, <<"a", "c", "t">>,
     <<"s", "t", "a", "t", "u", "t", "e">>, <<"s", "e", "c", "t", "i", "o", "n">>,
     <<"p", "e", "n", "a", "l", "t", "y">>, <<"o", "f", "f", "e", "n", "c", "e">>,
     <<"c", "r", "i", "m", "e">>, <<"c", "r", "i", "m", "i", "n", "a", "l">>,
     <<"r", "e", "g", "u", "l", "a", "t", "i", "o", "n">>,
     <<"c", "a", "n", "a", "d", "a">>, <<"c", "a", "n", "a", "d", "i", "a", "n">>,
     <<"l", "e", "g", "i", "s", "l", "a", "t", "i", "o", "n">>}

\* some keyword occurs in q at some offset, letter case aside
HasLegalKeyword(q) ==
    \E kw \in LegalKeywordSet : \E off \in 0..(Len(q) - Len(kw)) :
        \A j \in 1..Len(kw) : LowerChar(q[off + j]) = kw[j]

\* `text` occurs in a string field of the state st
TextInState(text, st) ==
    \/ Contains(st.question, text)
    \/ st.answer # None /\ Contains(st.answer[1], text)
    \/ st.error # None /\ Contains(st.error[1], text)
    \/ \E n \in 1..Len(st.retrieved_sections) :
          LET h == st.retrieved_sections[n]
          IN  \/ Contains(h.text, text) \/ Contains(h.label, text)
              \/ Contains(h.statute_title, text) \/ Contains(h.statute_long_title, text)

\* `text` occurs in a field of the HTTP response r
TextInResponse(text, r) ==
    \/ Contains(r.question, text)
    \/ r.answer # None /\ Contains(r.answer[1], text)
    \/ r.error # None /\ Contains(r.error[1], text)
    \/ r.detail # None /\ Contains(r.detail[1], text)

\* C1: the terminal state run returns has exactly one of answer and error
\* non-empty, and its question is the question run was called with.
C1_TerminalAnswerXorError ==
    Returned =>
        /\ Truthy(state.answer) # Truthy(state.error)
        /\ state.question = question

\* a run in which the model answered with the empty string
C1_Witness ==
    /\ Returned
    /\ chain_calls # <<>>
    /\ chain_calls[1].returned = Some(<<>>)
    /\ chat_exc = None
    /\ Truthy(state.error)

\* C2: right after route_question_node, needs_retrieval is true exactly when
\* the lower-cased question contains one of the 13 keywords, whatever the
\* table, the agent and the caller are.
C2_RoutingByKeyword ==
    (visited # <<>> /\ Last(visited) = "route_question") =>
        /\ state.needs_retrieval = HasLegalKeyword(question)
        /\ state.question = question

\* a question routed to retrieval on a keyword typed in upper case
C2_Witness ==
    /\ visited = <<"route_question">>
    /\ question = <<"L", "E", "G", "I", "S", "L", "A", "T", "I", "O", "N">>
    /\ state.needs_retrieval
    /\ pc = "retrieve_sections"

C4_NoExceptionTextLeaks ==
    pc \in {"END", "done"} =>
        /\ state.error \in {None, Some(ErrorExecutingGraph)}
        /\ \A exc \in {retrieval_exc, chat_exc} \ {None} :
              /\ ~TextInState(exc[1], state)
              /\ response # <<>> => ~TextInResponse(exc[1], response[1])
        /\ response # <<>> => response[1].error \in {None, Some(ErrorExecutingGraph)}

\* a request answered after the construction of the retrieval agent failed
C4_Witness ==
    /\ Returned
    /\ response # <<>>
    /\ ctor_calls = 1
    /\ retrieval_calls = <<>>
    /\ retrieval_exc # None
    /\ Truthy(state.answer)

\* C5: a direct call of ChatAgent.process or RetrievalAgent.process with an
\* empty or white-space-only input raises ValueError, and by then the chain
\* was not invoked, nothing was embedded and no connection was asked for.
C5_BlankInputRejectedFirst ==
    (call.agent # "none" /\ \A i \in 1..Len(call.input) : call.input[i] \in WhiteSpace) =>
        /\ call.kind = "raise"
        /\ call.exc_type = "ValueError"
        /\ call.text = IF call.agent = "chat" THEN QuestionEmptyMsg ELSE QueryEmptyMsg
        /\ chain_calls = <<>>
        /\ embed_calls = <<>>
        /\ conn_log = <<>>

\* RetrievalAgent.process was called with a blank and a newline
C5_Witness ==
    /\ call.agent = "retrieval"
    /\ call.input = <<" ", "\n">>
    /\ call.kind = "raise"

\* C6: when the question has no keyword, the node after route_question is
\* process_chat_agent_node; retrieve_sections is not executed, no retrieval
\* agent is constructed or called, and chat_agent.process gets the question
\* as it was passed to run.
C6_DirectAnswerPath ==
    (visited # <<>> /\ ~HasLegalKeyword(question)) =>
        /\ pc # "retrieve_sections"
        /\ \A n \in 1..Len(visited) : visited[n] # "retrieve_sections"
        /\ Len(visited) = 1 => pc = "process_chat_agent_node"
        /\ Len(visited) >= 2 => visited[2] = "process_chat_agent_node"
        /\ ctor_calls = 0
        /\ retrieval_calls = <<>>
        /\ embed_calls = <<>>
        /\ conn_log = <<>>
        /\ Len(visited) >= 2 => chat_calls = <<question>>

\* the documentation's "What is 2+2?" answered on an instance with no agent
C6_Witness ==
    /\ Returned
    /\ question = <<"W", "h", "a", "t", " ", "i", "s", " ", "2", "+", "2", "?">>
    /\ retrieval_agent = "None"
    /\ chat_calls = <<question>>
    /\ Truthy(state.answer)

\* C7: after retrieve_sections_node the next node is process_chat_agent_node,
\* also when retrieval raised: the state then has error = the exception's
\* text, no hits and no answer; the run neither ends nor handles an error
\* there, and chat_agent.process is called once.
C7_RetrievalFailureContinues ==
    /\ (visited # <<>> /\ Last(visited) = "retrieve_sections") =>
          /\ pc = "process_chat_agent_node"
          /\ outcome = "none"
          /\ chat_calls = <<>>
          /\ retrieval_exc # None =>
                /\ state.error = retrieval_exc
                /\ state.retrieved_sections = <<>>
                /\ state.answer = None
                /\ state.question = question
    /\ \A n \in 1..Len(visited) :
          visited[n] = "retrieve_sections" =>
              /\ Len(visited) > n =>
                    /\ visited[n + 1] = "process_chat_agent_node"
                    /\ Len(chat_calls) = 1

\* the retrieval call raised while embedding, and the chat step ran after it
C7_Witness ==
    /\ Len(visited) = 3
    /\ visited[2] = "retrieve_sections"
    /\ retrieval_exc = Some(<<"d", "o", "w", "n">>)
    /\ Len(embed_calls) = 1
    /\ conn_log = <<>>
    /\ chat_calls = <<question>>

\* the fields of a ChatGraphState hold values of their declared types
ValidState(st) ==
    /\ DOMAIN st = {"question", "needs_retrieval", "retrieved_sections", "answer", "error"}
    /\ st.question \in Questions
    /\ st.needs_retrieval \in BOOLEAN
    /\ Len(st.retrieved_sections) \in 0..MaxRows
    /\ Len(st.answer) \in {0, 1}
    /\ Len(st.error) \in {0, 1}

PromptEntry(i, hit) ==
    LET n == IF Len(hit.text) > 300 THEN 300 ELSE Len(hit.text)
        excerpt == [j \in 1..n |-> hit.text[j]]
    IN  <<"\n">> \o Str(i) \o <<".", " ">> \o hit.statute_title
            \o <<" ", "-", " ", "S", "e", "c", "t", "i", "o", "n", " ">> \o hit.label
            \o <<"\n", " ", " ", " ">> \o excerpt \o <<".", ".", ".", "\n">>

\* the entries of hits[from..], one after the other
RECURSIVE PromptEntries(_, _)
PromptEntries(hits, from) ==
    IF from > Len(hits) THEN <<>>
    ELSE PromptEntry(from, hits[from]) \o PromptEntries(hits, from + 1)

PromptWithHits(q, hits) ==
    q \o <<"\n", "\n", "\n", "\n", "R", "e", "l", "e", "v", "a", "n", "t", " ", "l", "e",
           "g", "a", "l", " ", "s", "e", "c", "t", "i", "o", "n", "s", ":", "\n">>
      \o PromptEntries(hits, 1)

\* the hits the retrieval call of this run returned (<<>> when there are none)
HitsReturned ==
    IF retrieval_calls # <<>> /\ retrieval_calls[1].returned # None
    THEN retrieval_calls[1].returned[1]
    ELSE <<>>

\* C9: when hits enter process_chat_agent_node, chat_agent.process gets the
\* question followed by the block that lists each hit once, numbered from 1
\* in the order of the hits, with its statute title, its label and at most
\* the first 300 characters of its text; the state keeps the bare question.
C9_PromptListsEveryHit ==
    (HitsReturned # <<>> /\ chat_calls # <<>>) =>
        /\ chat_calls = <<PromptWithHits(question, HitsReturned)>>
        /\ state.question = question
        /\ Last(visited) = "process_chat_agent_node" =>
              state.retrieved_sections = HitsReturned

\* five hits were rendered, one of them cut to 300 characters
C9_Witness ==
    /\ visited # <<>>
    /\ Last(visited) = "process_chat_agent_node"
    /\ Len(state.retrieved_sections) = 5
    /\ \E n \in 1..5 : Len(state.retrieved_sections[n].text) > 300
    /\ Len(chat_calls) = 1
    /\ Len(chat_calls[1]) > Len(question)

\* C10: for a question with a keyword, when the agent is there or built, the
\* search returns and the model gives a non-empty answer, the search was
\* called once with the question and k = 5 and returned at most 5 hits, and
\* the terminal state has that answer, no error, needs_retrieval true and
\* the hits as returned.
C10_RetrievalSuccessPath ==
    (/\ Returned
     /\ HasLegalKeyword(question)
     /\ retrieval_exc = None
     /\ chat_exc = None
     /\ chain_calls # <<>>
     /\ Truthy(chain_calls[1].returned)) =>
        /\ Len(retrieval_calls) = 1
        /\ retrieval_calls[1].query = question
        /\ retrieval_calls[1].k = 5
        /\ retrieval_calls[1].returned # None
        /\ Len(HitsReturned) <= 5
        /\ state.answer = chain_calls[1].returned
        /\ state.error = None
        /\ state.needs_retrieval = TRUE
        /\ state.retrieved_sections = HitsReturned
        /\ state.question = question

\* the documentation's penalty question answered from a table with more than
\* five eligible rows
C10_Witness ==
    /\ Returned
    /\ question = <<"W", "h", "a", "t", " ", "i", "s", " ", "t", "h", "e", " ", "p", "e",
                    "n", "a", "l", "t", "y", " ", "f", "o", "r", " ", "t", "h", "e", "f",
                    "t", "?">>
    /\ Cardinality({i \in 1..Len(sections) : Eligible(sections[i])}) > 5
    /\ Len(state.retrieved_sections) = 5
    /\ Truthy(state.answer)
    /\ state.error = None

\* the result of the last direct call of RetrievalAgent.process, if it returned
RetrievalReturned == call.agent = "retrieval" /\ call.kind = "return"

\* C11: whatever the query, k >= 1 and the table are, RetrievalAgent.process
\* returns at most k hits, and no hit has a larger similarity than the hit
\* before it.
C11_AtMostKHitsBySimilarity ==
    RetrievalReturned =>
        /\ call.k >= 1
        /\ Len(call.hits) <= call.k
        /\ \A i \in 1..Len(call.hits), j \in 1..Len(call.hits) :
              i < j => call.hits[i].similarity >= call.hits[j].similarity

\* two hits asked of a table with six eligible rows, the first hit nearer
\* than the second
C11_Witness ==
    /\ RetrievalReturned
    /\ call.k = 2
    /\ Cardinality({i \in 1..Len(sections) : Eligible(sections[i])}) > call.k
    /\ Len(call.hits) = 2
    /\ call.hits[1].similarity > call.hits[2].similarity

\* C16: for a question that is not blank, ChatAgent.process calls
\* chain.invoke once, with the question as it was given; what the chain
\* returns is returned as it is, and what the chain raises is raised to the
\* caller without a second call.
C16_ChainInvokedOnceUnmodified ==
    (call.agent = "chat" /\ \E i \in 1..Len(call.input) : call.input[i] \notin WhiteSpace) =>
        /\ Len(chain_calls) = 1
        /\ chain_calls[1].input = call.input
        /\ (chain_calls[1].returned # None) # (chain_calls[1].raised # None)
        /\ chain_calls[1].returned # None =>
              /\ call.kind = "return"
              /\ call.answer = chain_calls[1].returned
        /\ chain_calls[1].raised # None =>
              /\ call.kind = "raise"
              /\ call.exc_type # "ValueError"
              /\ Some(call.text) = chain_calls[1].raised

\* the chain raised on a question that ends in a blank
C16_Witness ==
    /\ call.agent = "chat"
    /\ call.input = <<"a", " ">>
    /\ call.kind = "raise"
    /\ call.text = <<"b", "o", "o", "m">>
    /\ Len(chain_calls) = 1

\* the row numbers of the table with an embedding and a non-empty text, as
\* the documentation describes the rows that are ranked
RankedRows ==
    {i \in 1..Len(sections) :
        /\ Len(sections[i].embedding) = 1
        /\ Len(sections[i].text) = 1
        /\ Len(sections[i].text[1]) >= 1}

\* the row of the table a hit was made from, found by the hit's id
HitRow(hit) == CHOOSE i \in 1..Len(sections) : Str(i) = hit.id

NonEmptyAnswer == Len(state.answer) = 1 /\ Len(state.answer[1]) >= 1

\* C17: after process_chat_agent_node the run is at END exactly when the
\* answer is a non-empty string and at _handle_error otherwise, also when the
\* model returned the empty string without an exception; no terminal state
\* has the empty string as its answer.
C17_PassOnlyOnNonEmptyAnswer ==
    /\ (visited # <<>> /\ Last(visited) = "process_chat_agent_node") =>
          /\ pc \in {"END", "done", "_handle_error"}
          /\ pc \in {"END", "done"} <=> NonEmptyAnswer
          /\ pc = "_handle_error" <=> ~NonEmptyAnswer
    /\ (pc \in {"END", "done"} /\ visited # <<>>) =>
          /\ state.answer # Some(<<>>)
          /\ Last(visited) = "_handle_error" => state.answer = None

\* the model returned the empty string, no exception was caught, and the run
\* is on its way to _handle_error
C17_Witness ==
    /\ pc = "_handle_error"
    /\ Last(visited) = "process_chat_agent_node"
    /\ chat_exc = None
    /\ retrieval_exc = None
    /\ state.answer = Some(<<>>)
    /\ state.error = None

\* the place of node `name` in the nodes executed so far (0: not executed)
Place(name) ==
    IF \E n \in 1..Len(visited) : visited[n] = name
    THEN CHOOSE n \in 1..Len(visited) : visited[n] = name
    ELSE 0

\* C19: in one run the routing decision is made before any call of a
\* collaborator, the retrieval call (if any) is over before the chat call
\* starts, and there is at most one retrieval call and one model call.
C19_StrictlySequential ==
    call.agent = "none" =>
        /\ Len(retrieval_calls) <= 1
        /\ Len(chat_calls) <= 1
        /\ Len(chain_calls) <= 1
        /\ Len(embed_calls) <= 1
        /\ (retrieval_calls # <<>> \/ ctor_calls > 0 \/ chat_calls # <<>>) =>
              /\ visited[1] = "route_question"
              /\ Len(visited) >= 2
        /\ (retrieval_calls # <<>> \/ ctor_calls > 0) =>
              /\ Place("retrieve_sections") = 2
              /\ state.needs_retrieval \/ Place("_handle_error") > 0
        /\ pc \in {"route_question", "retrieve_sections"} =>
              chat_calls = <<>> /\ chain_calls = <<>>
        /\ pc = "route_question" => retrieval_calls = <<>> /\ ctor_calls = 0
        /\ chat_calls # <<>> =>
              /\ Place("process_chat_agent_node") > Place("retrieve_sections")
              /\ retrieval_calls # <<>> =>
                    (retrieval_calls[1].returned # None) # (retrieval_exc # None)

\* a run that made one retrieval call, which returned, and then one model call
C19_Witness ==
    /\ pc = "END"
    /\ visited = <<"route_question", "retrieve_sections", "process_chat_agent_node">>
    /\ Len(retrieval_calls) = 1
    /\ retrieval_calls[1].returned # None
    /\ Len(chat_calls) = 1
    /\ Len(chain_calls) = 1

\* the four ways through the graph
GraphPaths ==
    {<<"route_question", "process_chat_agent_node">>,
     <<"route_question", "process_chat_agent_node", "_handle_error">>,
     <<"route_question", "retrieve_sections", "process_chat_agent_node">>,
     <<"route_question", "retrieve_sections", "process_chat_agent_node", "_handle_error">>}

\* seq is the beginning of path
IsPrefix(seq, path) ==
    Len(seq) <= Len(path) /\ \A n \in 1..Len(seq) : seq[n] = path[n]

\* a run of the graph is under way
Running == pc \notin {"idle", "done"}

\* C20: every run of the graph ends, given that each call of a collaborator
\* returns or raises: the nodes executed are the beginning of one of the four
\* paths, none is executed twice, a run that has ended has executed one of
\* the four paths in full (at most four nodes), and a run under way reaches
\* its end.
C20_RunTerminates ==
    /\ [](call.agent = "none" =>
            /\ \E path \in GraphPaths : IsPrefix(visited, path)
            /\ Len(visited) <= 4
            /\ \A m, n \in 1..Len(visited) : m # n => visited[m] # visited[n]
            /\ pc \in {"END", "done"} => visited \in GraphPaths
            /\ outcome # "raised")
    /\ (Running ~> pc = "done")

\* a run that took the longest of the four paths and has ended
C20_Witness ==
    /\ pc = "done"
    /\ outcome = "returned"
    /\ visited = <<"route_question", "retrieve_sections", "process_chat_agent_node",
                  "_handle_error">>

\* C13: when run returns, the response to POST /api/chat is 200 with the
\* question, answer and error of the final state as they are; when run
\* raises, it is 500 with the fixed detail, which has none of the
\* exception's text.
C13_HttpBoundary ==
    (call.agent = "graph" /\ pc = "done") =>
        /\ Len(response) = 1
        /\ call.kind = "return" =>
              /\ response[1].status = 200
              /\ response[1].question = state.question
              /\ response[1].answer = state.answer
              /\ response[1].error = state.error
              /\ response[1].detail = None
        /\ call.kind = "raise" =>
              /\ response[1].status = 500
              /\ response[1].detail = Some(FailedToProcess)
              /\ ~TextInResponse(call.text, response[1])

\* run raised, and the request was answered with 500
C13_Witness ==
    /\ call.agent = "graph"
    /\ call.kind = "raise"
    /\ call.text = <<"d", "o", "w", "n">>
    /\ outcome = "raised"
    /\ response # <<>>
    /\ response[1].status = 500

\* content with each "\r\n" and each other "\r" replaced by one "\n"
LineEndingsAsNewlines(content) ==
    LET kept == {i \in 1..Len(content) :
                    ~(content[i] = "\n" /\ i > 1 /\ content[i - 1] = "\r")}
        nth(n) == CHOOSE i \in kept : Cardinality({j \in kept : j <= i}) = n
    IN  [n \in 1..Cardinality(kept) |->
            IF content[nth(n)] = "\r" THEN "\n" ELSE content[nth(n)]]

\* what a failed load_template and a failed construction have in common
\* with the exception read_text raised
SameException(res, file) ==
    /\ res.kind = "raise"
    /\ res.exc_type = file.fault[1].exc_type
    /\ res.text = file.fault[1].text

\* the part of C15 on failures: load_template raises what read_text raised
\* (so a missing file, a file without permission and other failures keep
\* their kinds), and a failed load of either template leaves ChatAgent()
\* with that exception and without an agent
TemplateFailuresPropagate ==
    /\ (call.agent = "loader" /\ call.file.kind = "unreadable") =>
          SameException(call, call.file)
    /\ (call.agent = "loader" /\ call.file.kind = "file") => call.kind = "return"
    /\ (call.agent = "ChatAgent" /\ call.system.kind = "unreadable") =>
          /\ SameException(call, call.system)
          /\ ~call.built
          /\ call.loaded = <<"system">>
    /\ (/\ call.agent = "ChatAgent"
        /\ call.system.kind = "file"
        /\ call.human.kind = "unreadable") =>
          /\ SameException(call, call.human)
          /\ ~call.built
    /\ (call.agent = "ChatAgent" /\ call.built) =>
          /\ call.kind = "return"
          /\ call.system.kind = "file"
          /\ call.human.kind = "file"

\* C15 as stated: failures keep their kinds and stop the construction, and a
\* successful load_template returns exactly the content of the file.
C15_Original ==
    /\ TemplateFailuresPropagate
    /\ (call.agent = "loader" /\ call.kind = "return") =>
          call.content = call.file.content

\* C15, amended: failures keep their kinds and stop the construction, and a
\* successful load_template returns the content of the file with each line
\* ending "\r\n" or "\r" read as "\n", which is the exact content when the
\* file has no carriage return.
C15_TemplateLoadOutcomes ==
    /\ TemplateFailuresPropagate
    /\ (call.agent = "loader" /\ call.kind = "return") =>
          /\ call.content = LineEndingsAsNewlines(call.file.content)
          /\ (\A i \in 1..Len(call.file.content) : call.file.content[i] # "\r") =>
                call.content = call.file.content
    /\ (call.agent = "ChatAgent" /\ call.built) =>
          call.templates = <<LineEndingsAsNewlines(call.system.content),
                             LineEndingsAsNewlines(call.human.content)>>

\* a template with a Windows line ending was loaded
C15_Witness ==
    /\ call.agent = "loader"
    /\ call.kind = "return"
    /\ call.file.content = <<"a", "\r", "\n">>
    /\ call.content = <<"a", "\n">>

\* the run of the graph on question q by a thread alone, given the value of
\* self.retrieval_agent it meets and what its collaborators do: the nodes
\* executed and the final state
SoloRun(q, agent, ctor, retrieval, chain) ==
    LET s1 == RouteQuestionState(InitialState(q))
        retrieves == RouteQuestionRouter(s1) = "retrieve_sections"
        res == IF retrieval = <<>> THEN [kind |-> "raise", text |-> <<>>]
               ELSE RetrievalAgentProcess(q, RetrievalK, retrieval[1].fault,
                                          retrieval[1].exc, retrieval[1].qv,
                                          retrieval[1].rows)
        s2 == IF retrieves THEN RetrieveSectionsNode(s1, agent, ctor, res).state ELSE s1
        s3 == ProcessChatAgentNode(s2, ChatAgentProcess(EnhancedQuestion(s2), chain)).state
        fails == ProcessChatAgentNodeRouter(s3) = "_handle_error"
    IN  [state |-> IF fails THEN HandleError(s3) ELSE s3,
         visited |-> <<"route_question">>
                        \o (IF retrieves THEN <<"retrieve_sections">> ELSE <<>>)
                        \o <<"process_chat_agent_node">>
                        \o (IF fails THEN <<"_handle_error">> ELSE <<>>)]

\* the value __init__ gave self.retrieval_agent
AgentAtInit == IF retrieval_agent = "injected" THEN "injected" ELSE "None"

\* thread t has finished its run as SoloRun does from the agent value `agent`
RunsAsAlone(t, agent) ==
    LET th == threads[t]
        solo == SoloRun(th.question, agent, th.ctor[1], th.retrieval, th.chain[1])
    IN  th.state = solo.state /\ th.visited = solo.visited

SameBehaviour(a, b) ==
    /\ a.question = b.question
    /\ a.ctor = b.ctor
    /\ (a.retrieval # <<>> /\ b.retrieval # <<>>) => a.retrieval = b.retrieval
    /\ (a.chain # <<>> /\ b.chain # <<>>) => a.chain = b.chain

RECURSIVE HeldAfter(_)
HeldAfter(log) ==
    IF log = <<>> THEN 0
    ELSE HeldAfter(SubSeq(log, 1, Len(log) - 1))
            + (CASE log[Len(log)] = "acquire" -> 1
                 [] log[Len(log)] = "release" -> -1
                 [] OTHER -> 0)

\* C21: a call of RetrievalAgent.process acquires a connection only when the
\* query is not blank and the embedding call has returned, and a finished
\* call holds none: the connection is released when the call returns and
\* when the execution of the query raises.
C21_ConnectionScopedToQuery ==
    call.agent = "retrieval" =>
        /\ HeldAfter(conn_log) = 0
        /\ \A n \in 1..Len(conn_log) : HeldAfter(SubSeq(conn_log, 1, n)) \in {0, 1}
        /\ (\A i \in 1..Len(call.input) : call.input[i] \in WhiteSpace) =>
              conn_log = <<>> /\ embed_calls = <<>>
        /\ call.fault = "embed" => conn_log = <<>> /\ call.kind = "raise"
        /\ (\E n \in 1..Len(conn_log) : conn_log[n] = "acquire") =>
              /\ embed_calls = <<call.input>>
              /\ call.fault \in {"none", "execute"}
        /\ call.fault = "execute" =>
              call.kind = "raise" /\ conn_log = <<"acquire", "release">>
        /\ call.kind = "return" => conn_log = <<"acquire", "release">>

\* the execution of the query raised, and the connection was released
C21_Witness ==
    /\ call.agent = "retrieval"
    /\ call.fault = "execute"
    /\ call.kind = "raise"
    /\ call.text = <<"d", "o", "w", "n">>
    /\ conn_log = <<"acquire", "release">>

\* retrieval raised in this run and the model then gave a non-empty answer
RetrievalFailedThenAnswered ==
    /\ retrieval_exc # None
    /\ chat_exc = None
    /\ chain_calls # <<>>
    /\ Truthy(chain_calls[1].returned)

\* C22: when retrieval raises and the chat step then returns a non-empty
\* answer, the error that retrieve_sections_node put in the state is gone
\* after process_chat_agent_node: the terminal state has the answer, no
\* error, needs_retrieval true and no hits, the chat agent got the question
\* without a context, and the exception's text is nowhere in the state.
C22_RetrievalErrorCleared ==
    /\ (retrieval_exc # None /\ visited # <<>> /\ Last(visited) = "retrieve_sections") =>
          state.error = retrieval_exc
    /\ (RetrievalFailedThenAnswered /\ pc \in {"END", "done"}) =>
          /\ visited = <<"route_question", "retrieve_sections", "process_chat_agent_node">>
          /\ state = ChatGraphState(question, TRUE, <<>>, chain_calls[1].returned, None)
          /\ chat_calls = <<question>>
          /\ chain_calls[1].input = question
          /\ ~TextInState(retrieval_exc[1], state)
          /\ response # <<>> =>
                /\ response[1].error = None
                /\ response[1].answer = state.answer

\* the search failed on the database, the model answered, and the request
\* was answered without an error
C22_Witness ==
    /\ Returned
    /\ RetrievalFailedThenAnswered
    /\ retrieval_exc = Some(<<"b", "o", "o", "m">>)
    /\ conn_log = <<"acquire", "release">>
    /\ caller = "api"
    /\ state.error = None

\* a run is under way or over, and its question is empty or white space only
BlankQuestionRun ==
    /\ pc # "idle"
    /\ call.agent = "none"
    /\ \A i \in 1..Len(question) : question[i] \in {" ", "\n"}

AtTerminalState == pc \in {"END", "done"} /\ call.agent = "none" /\ visited # <<>>

\* C24: a terminal state reached through _handle_error has needs_retrieval
\* false and no hits, also when the question was routed to retrieval and the
\* search returned hits; a terminal state reached through the pass edge has
\* the routing decision in needs_retrieval (and the hits of the search).
C24_HandleErrorResetsRetrieval ==
    AtTerminalState =>
        /\ Last(visited) \in {"_handle_error", "process_chat_agent_node"}
        /\ Last(visited) = "_handle_error" =>
              /\ state.needs_retrieval = FALSE
              /\ state.retrieved_sections = <<>>
        /\ Last(visited) = "process_chat_agent_node" =>
              /\ state.needs_retrieval = HasLegalKeyword(question)
              /\ state.needs_retrieval <=> visited[2] = "retrieve_sections"
              /\ state.retrieved_sections = HitsReturned

\* the search returned hits for a question with a keyword, the generation
\* failed, and the terminal state reports neither
C24_Witness ==
    /\ AtTerminalState
    /\ Last(visited) = "_handle_error"
    /\ HasLegalKeyword(question)
    /\ visited[2] = "retrieve_sections"
    /\ Len(HitsReturned) = 3
    /\ state.needs_retrieval = FALSE
    /\ state.retrieved_sections = <<>>

\* thread t has called the constructor of RetrievalAgent and it raised
ConstructionFailed(t) ==
    threads[t].ctor_calls >= 1 /\ threads[t].ctor[1].kind = "raise"

\* thread t has called the constructor of RetrievalAgent and it returned
ConstructionSucceeded(t) ==
    threads[t].ctor_calls >= 1 /\ threads[t].ctor[1].kind = "return"

\* thread t is past the test of self.retrieval_agent in retrieve_sections_node
PastTheTest(t) ==
    threads[t].found # "-" /\ threads[t].pc \notin {"retrieve_sections:new"}

\* C25: over runs that follow one another, the retrieval agent is
\* constructed only by a run that reaches retrieve_sections while none is
\* set, and such a run always tries; an agent that is set (injected or
\* constructed) is never replaced; a failed construction leaves the agent
\* unset, and the failing run goes on to the chat step without hits.
C25_LazyAgentKept ==
    /\ [](\A t \in Threads :
            /\ threads[t].ctor_calls <= 1
            /\ threads[t].ctor_calls = 1 => threads[t].found = "None"
            /\ PastTheTest(t) => (threads[t].ctor_calls = 1 <=> threads[t].found = "None")
            /\ ConstructionSucceeded(t) =>
                  /\ retrieval_agent = "created"
                  /\ agent_writer = t
                  /\ \A u \in Threads \ {t} : ~ConstructionSucceeded(u)
            /\ ConstructionFailed(t) =>
                  /\ threads[t].retrieval = <<>>
                  /\ threads[t].pc # "retrieve_sections:process"
                  /\ Len(threads[t].visited) >= 2
                  /\ threads[t].visited[2] = "retrieve_sections"
                  /\ Len(threads[t].visited) = 2 =>
                        /\ threads[t].pc = "process_chat_agent_node"
                        /\ threads[t].state.retrieved_sections = <<>>
                  /\ Len(threads[t].visited) >= 3 =>
                        threads[t].visited[3] = "process_chat_agent_node"
                  /\ threads[t].state.retrieved_sections = <<>>)
    /\ []((\A t \in Threads : ~ConstructionSucceeded(t)) => retrieval_agent = AgentAtInit)
    /\ [][/\ retrieval_agent # "None" =>
                retrieval_agent' = retrieval_agent /\ agent_writer' = agent_writer
          /\ retrieval_agent' # retrieval_agent =>
                \E t \in Threads :
                    /\ threads[t].pc = "retrieve_sections:new"
                    /\ threads'[t].ctor_calls = threads[t].ctor_calls + 1
                    /\ retrieval_agent' = "created"]_vars

\* the construction failed in the first run; the second run found no agent,
\* constructed one, searched with it, and the agent is kept
C25_Witness ==
    /\ threads[1].pc = "done"
    /\ ConstructionFailed(1)
    /\ threads[1].state.retrieved_sections = <<>>
    /\ threads[2].pc = "done"
    /\ threads[2].found = "None"
    /\ ConstructionSucceeded(2)
    /\ threads[2].retrieval # <<>>
    /\ retrieval_agent = "created"
    /\ agent_writer = 2

====
